---- MODULE Spec2Model ----
(***************************************************************************)
(* TabexReminder (src/main.py): the dosing schedule table, the event       *)
(* processor (_apply_taken, cb_postpone, cb_missed_yes) and the scheduler  *)
(* tick, over the persisted collection data.json.                          *)
(*                                                                         *)
(* Time is counted in minutes since 00:00 UTC of day 0.  A stored          *)
(* timestamp is the string datetime.isoformat() + "Z"; it is modelled as   *)
(* [t |-> minutes, z |-> TRUE] (z: the string carries the "Z" suffix).     *)
(* An optional value (None in Python) is <<>>, a present value x is <<x>>. *)
(* get_interval_hours returns a float; it is modelled in tenths of an hour *)
(* (2.5 h is 25).                                                          *)
(***************************************************************************)
EXTENDS Integers, Sequences, FiniteSets, TLC

VARIABLES
    disk,     \* data.json: the persisted collection data["users"]
    clock,    \* the wall clock, in minutes
    tk,       \* the scheduler task: idle, or suspended in tick() at a send
    fr,       \* a cb_first_ready handler suspended at its cq.answer
    pending,  \* pending_onboarding
    out,      \* what the last step sent, and whether it saved a stale snapshot
    cnt,      \* how many handlers, ticks and I/O failures the run has had
    q,        \* SpecTable: the schedule query [day, asked, doses, hours]
    evU,      \* SpecOps: the user record the event processor works on
    evLast,   \* SpecOps: the last operation applied: its input and result
    evHist    \* SpecOps: where the run started and the dose-taken calls so far

sysVars == <<disk, clock, tk, fr, pending, out, cnt>>
fnVars == <<q, evU, evLast, evHist>>
vars == <<disk, clock, tk, fr, pending, out, cnt, q, evU, evLast, evHist>>

(***************************** bounds **************************************)
\* schedule queries range over 1-DayBelow .. DayAbove
DayBelow == 12
DayAbove == 40
\* event-processor runs apply at most MaxCalls operations
MaxCalls == 6
\* cb_missed_yes advances currentDay without limit; runs stop at MaxDay
MaxDay == 28
\* the first instant of a run: 07:59 UTC of day 0
BaseNow == 479
\* a course run takes at most MaxEvents dose-taken events
MaxEvents == 104
\* a run of the system starts at most MaxSteps handlers and ticks, and has at
\* most MaxIOFail failed reads or writes of data.json
MaxSteps == 3
MaxIOFail == 1

None == <<>>
Some(x) == <<x>>

\* the instants at which events and ticks happen
Instants == {BaseNow + k : k \in {0, 1, 15}}

\* the instants at which the event-processor runs apply an operation
OpInstants == {BaseNow, BaseNow + 15}

(************************ dosing schedule table ****************************)
\* mutant: the lower guard of line 41 forgotten
get_required_doses_nolow(day) ==
    IF day > 25 THEN 0
    ELSE IF day <= 3 THEN 6
    ELSE IF day <= 12 THEN 5
    ELSE IF day <= 16 THEN 4
    ELSE IF day <= 20 THEN 3
    ELSE 2

get_required_doses(day) ==
    IF day < 1 \/ day > 25 THEN 0
    ELSE IF day <= 3 THEN 6
    ELSE IF day <= 12 THEN 5
    ELSE IF day <= 16 THEN 4
    ELSE IF day <= 20 THEN 3
    ELSE 2

\* tenths of an hour
get_interval_hours(day) ==
    IF day < 1 \/ day > 25 THEN 20
    ELSE IF day <= 3 THEN 20
    ELSE IF day <= 12 THEN 25
    ELSE IF day <= 16 THEN 30
    ELSE IF day <= 20 THEN 50
    ELSE 120

(******************************* time **************************************)
\* timedelta(hours=h) in minutes, h in tenths of an hour
HoursDelta(h) == h * 6

\* timedelta(minutes=15), the postpone delay
PostponeMinutes == 15

\* datetime.utcnow(): a naive datetime
UtcNow(t) == [t |-> t, aware |-> FALSE]

\* dt.isoformat() + "Z" of a naive datetime: the stored string
IsoZ(dt) == [t |-> dt.t, z |-> TRUE]

\* datetime.fromisoformat(s.replace("Z", "+00:00")): aware iff s ends in "Z"
ParseIso(s) == [t |-> s.t, aware |-> s.z]

\* a >= b on datetimes: Python raises TypeError when exactly one is aware
DtGE(a, b) ==
    IF a.aware # b.aware THEN "TypeError"
    ELSE IF a.t >= b.t THEN "true" ELSE "false"

(**************************** user record **********************************)
\* the record _save_new_user writes
NewUser(start_date, tz) ==
    [ startDate |-> start_date,
      timezone |-> tz,
      currentDay |-> 1,
      takenToday |-> 0,
      lastDoseTimestamp |-> None,
      courseCompleted |-> FALSE,
      lastMorningMessageDate |-> None,
      nextReminderTimestamp |-> None,
      postponedReminderTimestamp |-> None,
      last21Check |-> None ]

(*************************** event processor *******************************)
\* the body of _apply_taken with its three choices open: whether the day is
\* over (line 384), which day's interval is used (line 396), and the value
\* takenToday gets on a day advance (line 386)
ApplyTakenWith(u, now, dayOver(_, _), useNextDay, resetTo, lastDay) ==
    LET u1 == [u EXCEPT !.takenToday = u.takenToday + 1,
                        !.lastDoseTimestamp = Some(IsoZ(now)),
                        !.nextReminderTimestamp = None,
                        !.postponedReminderTimestamp = None]
        day == u1.currentDay
        required == get_required_doses(day)
        u2 == IF dayOver(u1.takenToday, required)
              THEN [u1 EXCEPT !.currentDay = day + 1,
                              !.takenToday = IF resetTo = 0 THEN 0 ELSE u1.takenToday,
                              !.lastMorningMessageDate = None]
              ELSE u1
        next_day == u2.currentDay
        iday == IF useNextDay THEN next_day ELSE day
    IN  IF next_day > lastDay
        THEN [u |-> [u2 EXCEPT !.courseCompleted = TRUE], completion |-> TRUE]
        ELSE [u |-> [u2 EXCEPT !.nextReminderTimestamp =
                        Some(IsoZ([now EXCEPT !.t = now.t + HoursDelta(get_interval_hours(iday))]))],
              completion |-> FALSE]

GEq(a, b) == a >= b
GtOnly(a, b) == a > b

\* mutant: the interval of the day before the advance
_apply_taken_stale_day(u, now) == ApplyTakenWith(u, now, GEq, FALSE, 0, 25)
\* mutant: takenToday > required instead of >=
_apply_taken_gt(u, now) == ApplyTakenWith(u, now, GtOnly, TRUE, 0, 25)
\* mutant: takenToday not reset on a day advance
_apply_taken_noreset(u, now) == ApplyTakenWith(u, now, GEq, TRUE, 1, 25)
\* mutant: the course ends one day early (next_day > 24)
_apply_taken_early(u, now) == ApplyTakenWith(u, now, GEq, TRUE, 0, 24)

\* mutant: the postponed timer survives the dose
_apply_taken_keeppost(u, now) ==
    LET r == ApplyTakenWith(u, now, GEq, TRUE, 0, 25)
    IN  [r EXCEPT !.u.postponedReminderTimestamp = u.postponedReminderTimestamp]

\* _apply_taken(u, now): the mutated record and whether the completion
\* message is returned
_apply_taken(u, now) ==
    LET u1 == [u EXCEPT !.takenToday = u.takenToday + 1,
                        !.lastDoseTimestamp = Some(IsoZ(now)),
                        !.nextReminderTimestamp = None,
                        !.postponedReminderTimestamp = None]
        day == u1.currentDay
        required == get_required_doses(day)
        u2 == IF u1.takenToday >= required
              THEN [u1 EXCEPT !.currentDay = day + 1,
                              !.takenToday = 0,
                              !.lastMorningMessageDate = None]
              ELSE u1
        next_day == u2.currentDay
    IN  IF next_day > 25
        THEN [u |-> [u2 EXCEPT !.courseCompleted = TRUE], completion |-> TRUE]
        ELSE [u |-> [u2 EXCEPT !.nextReminderTimestamp =
                        Some(IsoZ([now EXCEPT !.t = now.t + HoursDelta(get_interval_hours(next_day))]))],
              completion |-> FALSE]

\* mutant: the postpone also drops the standard timer
ApplyPostpone_dropnext(u, now) ==
    IF u.courseCompleted
    THEN [u |-> u, saved |-> FALSE]
    ELSE [u |-> [u EXCEPT !.nextReminderTimestamp = None,
                          !.postponedReminderTimestamp =
                              Some(IsoZ([now EXCEPT !.t = now.t + PostponeMinutes]))],
          saved |-> TRUE]

\* cb_postpone on the loaded record: the record and whether it is saved
ApplyPostpone(u, now) ==
    IF u.courseCompleted
    THEN [u |-> u, saved |-> FALSE]
    ELSE [u |-> [u EXCEPT !.postponedReminderTimestamp =
                     Some(IsoZ([now EXCEPT !.t = now.t + PostponeMinutes]))],
          saved |-> TRUE]

\* mutant: the timers are not cleared
MissedTopUp_keep(u) ==
    LET required == get_required_doses(u.currentDay)
        missed == required - u.takenToday
    IN  [u EXCEPT !.takenToday = u.takenToday + missed]

\* cb_missed_yes up to the top-up of takenToday (lines 445-450)
MissedTopUp(u) ==
    LET u1 == [u EXCEPT !.nextReminderTimestamp = None,
                        !.postponedReminderTimestamp = None]
        required == get_required_doses(u1.currentDay)
        missed == required - u1.takenToday
    IN  [u1 EXCEPT !.takenToday = u1.takenToday + missed]

\* cb_missed_yes on the loaded record: top-up, then the day advance
ApplyMissed(u) ==
    LET u1 == MissedTopUp(u)
        day == u1.currentDay
        required == get_required_doses(day)
    IN  IF u1.takenToday >= required
        THEN [u1 EXCEPT !.currentDay = day + 1,
                        !.takenToday = 0,
                        !.lastMorningMessageDate = None]
        ELSE u1

(*********************** the persisted collection **************************)
Users == {"u1", "u2"}

\* the timezone offsets users enter: UTC and UTC+13
TZs == {0, 13}

\* data["users"]: a dict, in insertion order
EmptyData == <<>>
Has(data, uid) == \E i \in 1..Len(data) : data[i].uid = uid
Get(data, uid) == data[CHOOSE i \in 1..Len(data) : data[i].uid = uid].u
Put(data, uid, u) ==
    IF Has(data, uid)
    THEN [i \in 1..Len(data) |->
            IF data[i].uid = uid THEN [uid |-> uid, u |-> u] ELSE data[i]]
    ELSE Append(data, [uid |-> uid, u |-> u])
Keys(data) == [i \in 1..Len(data) |-> data[i].uid]

\* load_data: the collection, or the empty one when the read fails
load_data(file, ok) == IF ok THEN file ELSE EmptyData

\* save_data: the file after the call; a failed write leaves it as it was
save_data(file, data, ok) == IF ok THEN data ELSE file

(***************************** local time **********************************)
HHMM(h, m) == h * 60 + m
user_local_now(tz, t) == t + tz * 60
\* strftime("%H:%M"): compared as strings, so as minutes of the day
user_local_time_str(tz, t) == user_local_now(tz, t) % 1440
\* strftime("%Y-%m-%d"): the day number
user_local_date_str(tz, t) == user_local_now(tz, t) \div 1440

(******************************* tick **************************************)
TkIdle ==
    [ pc |-> "idle", data |-> EmptyData, rest |-> <<>>, need_save |-> FALSE,
      post_ts |-> None, today_user |-> 0, time_user |-> 0, now_utc |-> 0,
      stale |-> FALSE ]

\* the outcomes of the save_data calls of one step
IOs == [1..Cardinality(Users) -> BOOLEAN]

\* the outcomes a read or write can still have: no failure beyond MaxIOFail
Outcomes == IF cnt.fail < MaxIOFail THEN BOOLEAN ELSE {TRUE}
SaveOutcomes == IF cnt.fail < MaxIOFail THEN IOs ELSE {[i \in 1..Cardinality(Users) |-> TRUE]}

\* save_data(data) inside tick: s.disk is the file, s.io the outcomes left
TickSave(s) ==
    IF Head(s.io)
    THEN [s EXCEPT !.disk = s.data, !.io = Tail(@),
                   !.lost = IF s.stale THEN "tick" ELSE @, !.stale = FALSE,
                   !.wrote = @ \/ (s.disk # s.data)]
    ELSE [s EXCEPT !.io = Tail(@), !.failed = @ + 1]

TickSetU(s, u) == [s EXCEPT !.data = Put(s.data, Head(s.rest), u)]

\* mutant: the morning guard date is not recorded
MarkMorning_skip(u, today_user) == u

\* u["lastMorningMessageDate"] = today_user (line 573)
MarkMorning(u, today_user) == [u EXCEPT !.lastMorningMessageDate = Some(today_user)]

\* tick() from the place s.pc up to its next await or its end.  s holds the
\* locals of tick (data, the users left in the loop, need_save, post_ts,
\* today_user, time_user, now_utc) and the file.
RECURSIVE TickGo(_)
TickGo(s) ==
    IF s.pc = "user" /\ s.rest = <<>> THEN [s EXCEPT !.pc = "idle"]
    ELSE
    LET uid == Head(s.rest)
        u == Get(s.data, uid)
        day == u.currentDay
        required == get_required_doses(day)
    IN
    CASE s.pc = "user" ->
           IF u.courseCompleted
           THEN TickGo([s EXCEPT !.rest = Tail(@)])
           ELSE LET tz == u.timezone
                    s1 == [s EXCEPT !.today_user = user_local_date_str(tz, s.clock),
                                    !.time_user = user_local_time_str(tz, s.clock)]
                IN  IF day > 25
                    THEN [TickSave(TickSetU(s1, [u EXCEPT !.courseCompleted = TRUE]))
                            EXCEPT !.pc = "send_completion"]
                    ELSE TickGo([s1 EXCEPT !.pc = "morning"])
      [] s.pc = "morning" ->
           IF /\ s.time_user >= HHMM(7, 59) /\ s.time_user <= HHMM(8, 1)
              /\ u.lastMorningMessageDate # Some(s.today_user)
           THEN [TickSave(TickSetU(s, MarkMorning(u, s.today_user)))
                   EXCEPT !.pc = "send_morning"]
           ELSE TickGo([s EXCEPT !.pc = "check21"])
      [] s.pc = "check21" ->
           IF /\ s.time_user >= HHMM(20, 59) /\ s.time_user <= HHMM(21, 2)
              /\ required - u.takenToday > 0
              /\ u.last21Check # Some(s.today_user)
           THEN [TickSave(TickSetU(s, [u EXCEPT !.last21Check = Some(s.today_user)]))
                   EXCEPT !.pc = "send_21"]
           ELSE TickGo([s EXCEPT !.pc = "remind"])
      [] s.pc = "remind" ->
           LET s1 == [s EXCEPT !.need_save = FALSE,
                               !.post_ts = u.postponedReminderTimestamp]
               next_ts == u.nextReminderTimestamp
               due == DtGE(UtcNow(s.now_utc), ParseIso(next_ts[1]))
           IN  IF next_ts = None THEN TickGo([s1 EXCEPT !.pc = "post"])
               ELSE IF due = "true" THEN [s1 EXCEPT !.pc = "send_next"]
               ELSE IF due = "false" THEN TickGo([s1 EXCEPT !.pc = "post"])
               ELSE TickGo([TickSetU(s1, [u EXCEPT !.nextReminderTimestamp = None])
                              EXCEPT !.need_save = TRUE, !.pc = "post"])
      [] s.pc = "post" ->
           LET due == DtGE(UtcNow(s.now_utc), ParseIso(s.post_ts[1]))
           IN  IF s.post_ts = None THEN TickGo([s EXCEPT !.pc = "end"])
               ELSE IF due = "true" THEN [s EXCEPT !.pc = "send_post"]
               ELSE IF due = "false" THEN TickGo([s EXCEPT !.pc = "end"])
               ELSE TickGo([TickSetU(s, [u EXCEPT !.postponedReminderTimestamp = None])
                              EXCEPT !.need_save = TRUE, !.pc = "end"])
      [] s.pc = "end" ->
           LET s1 == IF s.need_save THEN TickSave(s) ELSE s
           IN  TickGo([s1 EXCEPT !.pc = "user", !.rest = Tail(@)])

\* tick() after the await of s.pc when the send returned: lines 565, 589,
\* 611, 624-625 and 639-640 onwards
TickSent(s) ==
    LET uid == Head(s.rest)
        u == Get(s.data, uid)
    IN
    CASE s.pc = "send_completion" -> TickGo([s EXCEPT !.pc = "user", !.rest = Tail(@)])
      [] s.pc = "send_morning" -> TickGo([s EXCEPT !.pc = "check21"])
      [] s.pc = "send_21" -> TickGo([s EXCEPT !.pc = "remind"])
      [] s.pc = "send_next" ->
           TickGo([TickSetU(s, [u EXCEPT !.nextReminderTimestamp = None])
                     EXCEPT !.need_save = TRUE, !.pc = "post"])
      [] s.pc = "send_post" ->
           TickGo([TickSetU(s, [u EXCEPT !.postponedReminderTimestamp = None])
                     EXCEPT !.need_save = TRUE, !.pc = "end"])

\* tick() after the await of s.pc when the send raised: the except branches
\* of lines 563-564, 586-587 and 608-609 only log, those of lines 626-629 and
\* 641-644 clear the timer and set need_save
TickRaised(s) ==
    LET uid == Head(s.rest)
        u == Get(s.data, uid)
    IN
    CASE s.pc = "send_completion" -> TickGo([s EXCEPT !.pc = "user", !.rest = Tail(@)])
      [] s.pc = "send_morning" -> TickGo([s EXCEPT !.pc = "check21"])
      [] s.pc = "send_21" -> TickGo([s EXCEPT !.pc = "remind"])
      [] s.pc = "send_next" ->
           TickGo([TickSetU(s, [u EXCEPT !.nextReminderTimestamp = None])
                     EXCEPT !.need_save = TRUE, !.pc = "post"])
      [] s.pc = "send_post" ->
           TickGo([TickSetU(s, [u EXCEPT !.postponedReminderTimestamp = None])
                     EXCEPT !.need_save = TRUE, !.pc = "end"])

\* mutant: a send that raises ends the tick
TickAfterSend_abort(s, ok) == IF ok THEN TickSent(s) ELSE [s EXCEPT !.pc = "idle"]

\* tick() after the await of s.pc: the send returned (ok) or raised
TickAfterSend(s, ok) == IF ok THEN TickSent(s) ELSE TickRaised(s)

\* the notification tick awaits at s.pc
SendKind(pc) ==
    CASE pc = "send_completion" -> "completion"
      [] pc = "send_morning" -> "morning"
      [] pc = "send_21" -> "missed"
      [] OTHER -> "reminder"

\* the locals of tick with the file and the step's inputs
TickFrame(t, io) ==
    [ pc |-> t.pc, data |-> t.data, rest |-> t.rest, need_save |-> t.need_save,
      post_ts |-> t.post_ts, today_user |-> t.today_user, time_user |-> t.time_user,
      now_utc |-> t.now_utc, stale |-> t.stale,
      disk |-> disk, clock |-> clock, io |-> io,
      lost |-> "no", wrote |-> FALSE, failed |-> 0 ]

\* the locals kept while tick is suspended
TickLocals(s) ==
    IF s.pc = "idle" THEN TkIdle
    ELSE [ pc |-> s.pc, data |-> s.data, rest |-> s.rest, need_save |-> s.need_save,
           post_ts |-> s.post_ts, today_user |-> s.today_user,
           time_user |-> s.time_user, now_utc |-> s.now_utc, stale |-> s.stale ]

FrIdle == [pc |-> "idle", uid |-> "", data |-> EmptyData, stale |-> FALSE]

\* another task wrote the file: the snapshots held across an await are stale
Staled(t, wrote) == IF t.pc # "idle" /\ wrote THEN [t EXCEPT !.stale = TRUE] ELSE t

\* out.lost: "tick" or "handler" when the step saved a snapshot loaded before
\* another task's save, so that the other task's update is overwritten
\* out.msgs: the notification the step delivered; out.undelivered: the one
\* whose send raised; out.sent: how many notifications of each kind each user
\* has been delivered so far
NoSent == [uid \in Users |-> [completion |-> 0, morning |-> 0, missed |-> 0, reminder |-> 0]]
Quiet == [msgs |-> <<>>, undelivered |-> <<>>, lost |-> "no", sent |-> NoSent]

Emit(msgs, undelivered, lost) ==
    [ msgs |-> msgs, undelivered |-> undelivered, lost |-> lost,
      sent |-> IF msgs = <<>> THEN out.sent
               ELSE [out.sent EXCEPT ![msgs[1].to][msgs[1].kind] = @ + 1] ]

\* run_scheduler calls tick(): load_data, then the loop up to its first await
TickStart ==
    /\ tk.pc = "idle"
    /\ cnt.steps < MaxSteps
    /\ ~cnt.ticked
    /\ \E lok \in Outcomes, io \in SaveOutcomes :
         LET data == load_data(disk, lok)
             s0 == [TickFrame(TkIdle, io) EXCEPT
                      !.pc = "user", !.data = data, !.rest = Keys(data),
                      !.now_utc = clock]
             s == TickGo(s0)
             nf == s.failed + (IF lok THEN 0 ELSE 1)
         IN  /\ cnt.fail + nf <= MaxIOFail
             /\ tk' = TickLocals(s)
             /\ disk' = s.disk
             /\ fr' = Staled(fr, s.wrote)
             /\ out' = Emit(<<>>, <<>>, s.lost)
             /\ cnt' = [cnt EXCEPT !.steps = @ + 1, !.fail = @ + nf,
                          !.ticked = (s.pc = "idle") \/ @]
    /\ UNCHANGED <<clock, pending>>
    /\ UNCHANGED fnVars

\* the send tick awaits returns or raises; tick runs on to its next await
TickResume ==
    /\ tk.pc # "idle"
    /\ \E ok \in BOOLEAN, io \in SaveOutcomes :
         LET s == TickAfterSend(TickFrame(tk, io), ok)
             m == <<[to |-> Head(tk.rest), kind |-> SendKind(tk.pc)]>>
         IN  /\ cnt.fail + s.failed <= MaxIOFail
             /\ tk' = TickLocals(s)
             /\ disk' = s.disk
             /\ fr' = Staled(fr, s.wrote)
             /\ out' = Emit(IF ok THEN m ELSE <<>>, IF ok THEN <<>> ELSE m, s.lost)
             /\ cnt' = [cnt EXCEPT !.fail = @ + s.failed,
                          !.ticked = (s.pc = "idle") \/ @]
    /\ UNCHANGED <<clock, pending>>
    /\ UNCHANGED fnVars

(****************************** handlers ***********************************)
\* A handler that loads the collection, changes the record of uid and saves,
\* with no await in between.  data is what load_data returned (lok: the read
\* succeeded); r is [u |-> the changed record, saved |-> whether save_data is
\* reached, completion |-> whether the completion message is sent]; a user
\* the collection does not hold ends the handler.
Handle(uid, data, r, lok, sok) ==
    LET saves == Has(data, uid) /\ r.saved
        file == IF saves THEN save_data(disk, Put(data, uid, r.u), sok) ELSE disk
        nf == (IF lok THEN 0 ELSE 1) + (IF saves /\ ~sok THEN 1 ELSE 0)
    IN  /\ cnt.steps < MaxSteps
        /\ cnt.fail + nf <= MaxIOFail
        /\ disk' = file
        /\ tk' = Staled(tk, file # disk)
        /\ fr' = Staled(fr, file # disk)
        /\ out' = Emit(IF saves /\ r.completion
                       THEN <<[to |-> uid, kind |-> "completion"]>> ELSE <<>>,
                       <<>>, "no")
        /\ cnt' = [cnt EXCEPT !.steps = @ + 1, !.fail = @ + nf]
        /\ UNCHANGED <<clock, pending>>
        /\ UNCHANGED fnVars

NoChange == [saved |-> FALSE, completion |-> FALSE]

\* cb_taken after load_data: the courseCompleted check, then _apply_taken
TakenOn(data, uid, t) ==
    IF ~Has(data, uid) \/ Get(data, uid).courseCompleted THEN NoChange
    ELSE LET r == _apply_taken(Get(data, uid), UtcNow(t))
         IN  [u |-> r.u, saved |-> TRUE, completion |-> r.completion]

\* cb_postpone after load_data
PostponeOn(data, uid, t) ==
    IF ~Has(data, uid) THEN NoChange
    ELSE LET r == ApplyPostpone(Get(data, uid), UtcNow(t))
         IN  [u |-> r.u, saved |-> r.saved, completion |-> FALSE]

\* cb_missed_yes after load_data: no courseCompleted check
MissedOn(data, uid) ==
    IF ~Has(data, uid) THEN NoChange
    ELSE [u |-> ApplyMissed(Get(data, uid)), saved |-> TRUE, completion |-> FALSE]

cb_taken(uid) ==
    \E lok \in Outcomes, sok \in Outcomes :
        Handle(uid, load_data(disk, lok), TakenOn(load_data(disk, lok), uid, clock), lok, sok)

\* on_text with a phrase of TAKEN_PHRASES, for a user not in onboarding
on_text_taken(uid) ==
    /\ pending[uid] = None
    /\ \E lok \in Outcomes, sok \in Outcomes :
        Handle(uid, load_data(disk, lok), TakenOn(load_data(disk, lok), uid, clock), lok, sok)

cb_postpone(uid) ==
    \E lok \in Outcomes, sok \in Outcomes :
        Handle(uid, load_data(disk, lok), PostponeOn(load_data(disk, lok), uid, clock), lok, sok)

cb_missed_yes(uid) ==
    /\ \A i \in 1..Len(disk) : disk[i].uid = uid => disk[i].u.currentDay < MaxDay
    /\ \E lok \in Outcomes, sok \in Outcomes :
        Handle(uid, load_data(disk, lok), MissedOn(load_data(disk, lok), uid), lok, sok)

\* cb_first_ready up to its await cq.answer(...): the collection is loaded
cb_first_ready(uid) ==
    /\ fr.pc = "idle"
    /\ cnt.steps < MaxSteps
    /\ \E lok \in Outcomes :
         LET data == load_data(disk, lok)
             nf == IF lok THEN 0 ELSE 1
         IN  /\ cnt.fail + nf <= MaxIOFail
             /\ fr' = IF Has(data, uid) /\ ~Get(data, uid).courseCompleted
                      THEN [pc |-> "answer", uid |-> uid, data |-> data, stale |-> FALSE]
                      ELSE fr
             /\ cnt' = [cnt EXCEPT !.steps = @ + 1, !.fail = @ + nf]
    /\ out' = Emit(<<>>, <<>>, "no")
    /\ UNCHANGED <<disk, clock, tk, pending>>
    /\ UNCHANGED fnVars

\* cb_first_ready after cq.answer: it raised (the handler ends), or the dose
\* is applied to the record loaded before the await and the collection saved
cb_first_ready_resume ==
    /\ fr.pc = "answer"
    /\ \E ok \in BOOLEAN, sok \in Outcomes :
         LET r == _apply_taken(Get(fr.data, fr.uid), UtcNow(clock))
             file == IF ok THEN save_data(disk, Put(fr.data, fr.uid, r.u), sok) ELSE disk
             nf == IF ok /\ ~sok THEN 1 ELSE 0
         IN  /\ cnt.fail + nf <= MaxIOFail
             /\ disk' = file
             /\ tk' = Staled(tk, file # disk)
             /\ out' = Emit(IF ok /\ r.completion
                            THEN <<[to |-> fr.uid, kind |-> "completion"]>> ELSE <<>>,
                            <<>>,
                            IF ok /\ sok /\ fr.stale THEN "handler" ELSE "no")
             /\ cnt' = [cnt EXCEPT !.fail = @ + nf]
    /\ fr' = FrIdle
    /\ UNCHANGED <<clock, pending>>
    /\ UNCHANGED fnVars

(***************************** onboarding **********************************)
\* cmd_start: a user the loaded collection does not hold starts onboarding
cmd_start(uid) ==
    /\ cnt.steps < MaxSteps
    /\ \E lok \in Outcomes :
         LET data == load_data(disk, lok)
             nf == IF lok THEN 0 ELSE 1
         IN  /\ cnt.fail + nf <= MaxIOFail
             /\ pending' = IF Has(data, uid) THEN pending
                           ELSE [pending EXCEPT ![uid] = Some([step |-> "timezone", timezone |-> 0, today_iso |-> 0])]
             /\ cnt' = [cnt EXCEPT !.steps = @ + 1, !.fail = @ + nf]
    /\ out' = Emit(<<>>, <<>>, "no")
    /\ UNCHANGED <<disk, clock, tk, fr>>
    /\ UNCHANGED fnVars

\* on_text at step "timezone" with a valid offset
on_text_timezone(uid) ==
    /\ cnt.steps < MaxSteps
    /\ pending[uid] # None
    /\ pending[uid][1].step = "timezone"
    /\ \E tz \in TZs :
         pending' = [pending EXCEPT ![uid] =
                       Some([step |-> "confirm_date", timezone |-> tz,
                             today_iso |-> user_local_date_str(tz, clock)])]
    /\ out' = Emit(<<>>, <<>>, "no")
    /\ cnt' = [cnt EXCEPT !.steps = @ + 1]
    /\ UNCHANGED <<disk, clock, tk, fr>>
    /\ UNCHANGED fnVars

\* _save_new_user, then del pending_onboarding[uid]
SaveNewUser(uid, start_date, tz) ==
    \E lok \in Outcomes, sok \in Outcomes :
        LET data == load_data(disk, lok)
            file == save_data(disk, Put(data, uid, NewUser(start_date, tz)), sok)
            nf == (IF lok THEN 0 ELSE 1) + (IF sok THEN 0 ELSE 1)
        IN  /\ cnt.steps < MaxSteps
            /\ cnt.fail + nf <= MaxIOFail
            /\ disk' = file
            /\ tk' = Staled(tk, file # disk)
            /\ fr' = Staled(fr, file # disk)
            /\ cnt' = [cnt EXCEPT !.steps = @ + 1, !.fail = @ + nf]
            /\ pending' = [pending EXCEPT ![uid] = None]
            /\ out' = Emit(<<>>, <<>>, "no")
            /\ UNCHANGED clock
            /\ UNCHANGED fnVars

cb_start_confirm_yes(uid) ==
    /\ pending[uid] # None
    /\ pending[uid][1].step = "confirm_date"
    /\ SaveNewUser(uid, pending[uid][1].today_iso, pending[uid][1].timezone)

cb_start_confirm_no(uid) ==
    /\ cnt.steps < MaxSteps
    /\ pending[uid] # None
    /\ pending[uid][1].step = "confirm_date"
    /\ pending' = [pending EXCEPT ![uid] = Some([pending[uid][1] EXCEPT !.step = "optional_date"])]
    /\ out' = Emit(<<>>, <<>>, "no")
    /\ cnt' = [cnt EXCEPT !.steps = @ + 1]
    /\ UNCHANGED <<disk, clock, tk, fr>>
    /\ UNCHANGED fnVars

\* on_text at step "optional_date" with a valid date
on_text_date(uid) ==
    /\ pending[uid] # None
    /\ pending[uid][1].step = "optional_date"
    /\ \E d \in {0} : SaveNewUser(uid, d, pending[uid][1].timezone)

(******************************** clock ************************************)
Advance ==
    /\ \E t \in Instants : t > clock /\ clock' = t
    /\ out' = Emit(<<>>, <<>>, "no")
    /\ cnt' = [cnt EXCEPT !.ticked = FALSE]
    /\ UNCHANGED <<disk, tk, fr, pending>>
    /\ UNCHANGED fnVars

(**************************** Spec: the system *****************************)
\* the collections a run starts from: "u1" near the end of the course (one
\* dose before the end of day 24, or on day 25), alone or with "u2", who has
\* just registered in UTC+13
Entry(uid, tz, day, taken) ==
    [uid |-> uid, u |-> [NewUser(0, tz) EXCEPT !.currentDay = day, !.takenToday = taken]]

StartCollections ==
    { <<Entry("u1", 0, 24, 1)>>,
      <<Entry("u1", 0, 25, 0)>>,
      <<Entry("u1", 0, 25, 1)>>,
      <<Entry("u1", 0, 25, 1), Entry("u2", 13, 1, 0)>> }

\* pending_onboarding at the start: empty, or "u2" about to confirm the date
NoPending == [uid \in Users |-> None]
StartPending(data) ==
    IF Len(data) > 1 \/ data[1].u.takenToday = 0 THEN {NoPending}
    ELSE { NoPending,
           [NoPending EXCEPT !["u2"] =
              Some([step |-> "confirm_date", timezone |-> 13, today_iso |-> 0])] }

Init ==
    /\ disk \in StartCollections
    /\ pending \in StartPending(disk)
    /\ clock = BaseNow
    /\ tk = TkIdle
    /\ fr = FrIdle
    /\ out = Quiet
    /\ cnt = [steps |-> 0, fail |-> 0, ticked |-> FALSE]
    /\ q = [day |-> 1, asked |-> FALSE, doses |-> 0, hours |-> 0]
    /\ evU = NewUser(0, 0)
    /\ evLast = [op |-> "init"]
    /\ evHist = [day |-> 1, taken |-> 0, takes |-> 0, n |-> 0, pp |-> None]

Next ==
    \/ TickStart
    \/ TickResume
    \/ Advance
    \/ cb_first_ready_resume
    \/ \E uid \in Users :
         \/ cb_taken(uid)
         \/ on_text_taken(uid)
         \/ cb_postpone(uid)
         \/ cb_missed_yes(uid)
         \/ cb_first_ready(uid)
         \/ cmd_start(uid)
         \/ on_text_timezone(uid)
         \/ cb_start_confirm_yes(uid)
         \/ cb_start_confirm_no(uid)
         \/ on_text_date(uid)

Spec == Init /\ [][Next]_vars

(************************* SpecTable: the table ****************************)
\* the system at rest, for the specifications that do not run it
SysIdle ==
    /\ disk = EmptyData
    /\ clock = BaseNow
    /\ tk = TkIdle
    /\ fr = FrIdle
    /\ pending = [uid \in Users |-> None]
    /\ out = Quiet
    /\ cnt = [steps |-> 0, fail |-> 0, ticked |-> FALSE]


Days == (1 - DayBelow) .. DayAbove

TableInit ==
    /\ SysIdle
    /\ q \in [day : Days, asked : {FALSE}, doses : {0}, hours : {0}]
    /\ evU = NewUser(0, 0)
    /\ evLast = [op |-> "init"]
    /\ evHist = [day |-> 1, taken |-> 0, takes |-> 0, n |-> 0, pp |-> None]

Lookup ==
    /\ \E d \in Days :
         q' = [day |-> d, asked |-> TRUE,
               doses |-> get_required_doses(d),
               hours |-> get_interval_hours(d)]
    /\ UNCHANGED <<evU, evLast, evHist>>
    /\ UNCHANGED sysVars

TableNext == Lookup

SpecTable == TableInit /\ [][TableNext]_vars

(********************** SpecOps: the event processor ***********************)
\* the records a user can have between events: a day of the course, fewer
\* doses taken than the day requires
StartRecords ==
    { [NewUser(0, 0) EXCEPT !.currentDay = d, !.takenToday = k,
                            !.lastMorningMessageDate = m]
        : d \in 1..25, k \in 0..5, m \in {None, Some(0)} }

OpsInit ==
    /\ SysIdle
    /\ q = [day |-> 1, asked |-> FALSE, doses |-> 0, hours |-> 0]
    /\ evU \in { u \in StartRecords : u.takenToday < get_required_doses(u.currentDay) }
    /\ evLast = [op |-> "init"]
    /\ evHist = [day |-> evU.currentDay, taken |-> evU.takenToday, takes |-> 0, n |-> 0, pp |-> None]

\* cb_taken / on_text / cb_first_ready after the courseCompleted check
OpTaken ==
    /\ evHist.n < MaxCalls
    /\ ~evU.courseCompleted
    /\ \E t \in OpInstants :
         LET r == _apply_taken(evU, UtcNow(t))
         IN  /\ evU' = r.u
             /\ evLast' = [op |-> "taken", before |-> evU, now |-> t,
                           completion |-> r.completion]
             /\ evHist' = [evHist EXCEPT !.n = @ + 1,
                             !.takes = IF @ = evHist.n THEN @ + 1 ELSE -1,
                             !.pp = IF @ # None /\ ~@[1].taken /\ t < @[1].due
                                    THEN Some([@[1] EXCEPT !.taken = TRUE])
                                    ELSE None]
    /\ UNCHANGED q
    /\ UNCHANGED sysVars

OpPostpone ==
    /\ evHist.n < MaxCalls
    /\ \E t \in OpInstants :
         LET r == ApplyPostpone(evU, UtcNow(t))
         IN  /\ evU' = r.u
             /\ evLast' = [op |-> "postpone", before |-> evU, now |-> t,
                           saved |-> r.saved]
             /\ evHist' = [evHist EXCEPT !.n = @ + 1, !.takes = -1,
                             !.pp = IF r.saved
                                    THEN Some([due |-> t + PostponeMinutes, taken |-> FALSE])
                                    ELSE None]
    /\ UNCHANGED q
    /\ UNCHANGED sysVars

OpMissed ==
    /\ evHist.n < MaxCalls
    /\ evU.currentDay < MaxDay
    /\ evU' = ApplyMissed(evU)
    /\ evLast' = [op |-> "missed", before |-> evU, mid |-> MissedTopUp(evU)]
    /\ evHist' = [evHist EXCEPT !.n = @ + 1, !.takes = -1, !.pp = None]
    /\ UNCHANGED q
    /\ UNCHANGED sysVars

\* tick() to its end with no handler in between: every save_data succeeds
\* and every send returns; sent lists the sends it awaits
RECURSIVE TickRun(_, _)
TickRun(s, sent) ==
    IF s.pc = "idle" THEN [s |-> s, sent |-> sent]
    ELSE TickRun(TickAfterSend([s EXCEPT !.io = [i \in 1..Cardinality(Users) |-> TRUE]], TRUE),
                 Append(sent, SendKind(s.pc)))

\* one tick at instant t over a collection that holds only the record evU
OpTick ==
    /\ evHist.n < MaxCalls
    /\ \E t \in OpInstants :
         LET data == <<[uid |-> "u1", u |-> evU]>>
             all == [i \in 1..Cardinality(Users) |-> TRUE]
             s0 == [TickFrame(TkIdle, all) EXCEPT
                      !.pc = "user", !.data = data, !.rest = Keys(data),
                      !.now_utc = t, !.clock = t, !.disk = data]
             r == TickRun(TickGo(s0), <<>>)
         IN  /\ evU' = Get(r.s.disk, "u1")
             /\ evLast' = [op |-> "tick", before |-> evU, now |-> t,
                           sent |-> r.sent, pp |-> evHist.pp,
                           prev |-> IF evLast.op = "tick"
                                    THEN Some([now |-> evLast.now, sent |-> evLast.sent])
                                    ELSE None]
    /\ evHist' = [evHist EXCEPT !.n = @ + 1, !.takes = -1, !.pp = None]
    /\ UNCHANGED q
    /\ UNCHANGED sysVars

OpsNext == OpTaken \/ OpPostpone \/ OpMissed \/ OpTick

SpecOps == OpsInit /\ [][OpsNext]_vars

(*********************** SpecCourse: a whole course ************************)
\* a freshly created record, and nothing but dose-taken events on it
CourseInit ==
    /\ SysIdle
    /\ q = [day |-> 1, asked |-> FALSE, doses |-> 0, hours |-> 0]
    /\ evU = NewUser(0, 0)
    /\ evLast = [op |-> "init"]
    /\ evHist = [day |-> 1, taken |-> 0, takes |-> 0, n |-> 0, pp |-> None]

\* cb_taken on a collection that holds the record evU: ignored once the course
\* is completed
DoseEvent ==
    /\ evHist.n < MaxEvents
    /\ \E t \in OpInstants :
         LET data == <<[uid |-> "u1", u |-> evU]>>
             r == TakenOn(data, "u1", t)
         IN  /\ evU' = IF r.saved THEN r.u ELSE evU
             /\ evLast' = [op |-> IF r.saved THEN "taken" ELSE "ignored",
                           before |-> evU, now |-> t, completion |-> r.completion]
    /\ evHist' = [evHist EXCEPT !.n = @ + 1, !.takes = @ + 1]
    /\ UNCHANGED q
    /\ UNCHANGED sysVars

CourseNext == DoseEvent

SpecCourse == CourseInit /\ [][CourseNext]_vars

\* dose-taken events keep coming
SpecCourseFair == SpecCourse /\ WF_vars(DoseEvent)

(************************ the table of spec 4.1 ****************************)
ClaimDoses(day) ==
    CASE day \in 1..3 -> 6
      [] day \in 4..12 -> 5
      [] day \in 13..16 -> 4
      [] day \in 17..20 -> 3
      [] day \in 21..25 -> 2
      [] OTHER -> 0

\* in minutes: 2.0 h, 2.5 h, 3.0 h, 5.0 h, 12.0 h, and 2.0 h as the fallback
ClaimIntervalMinutes(day) ==
    CASE day \in 1..3 -> 120
      [] day \in 4..12 -> 150
      [] day \in 13..16 -> 180
      [] day \in 17..20 -> 300
      [] day \in 21..25 -> 720
      [] OTHER -> 120

Stamp(t) == Some([t |-> t, z |-> TRUE])

(****************************** claims *************************************)
\* C1: between a tick's load_data and a later save_data of that snapshot no
\* handler completes its own load -> mutate -> save cycle: tick never saves a
\* snapshot that is older than the persisted collection.
C1_TickExclusive == out.lost # "tick"

\* C2: once a user's persisted courseCompleted is true, no event and no tick
\* changes any field of that persisted record or sends that user a notification
\* (the completion notice a tick is sending when it has just set
\* courseCompleted belongs to the completing tick itself).
C2_Terminal ==
    [][ \A uid \in Users :
          (Has(disk, uid) /\ Get(disk, uid).courseCompleted) =>
              /\ Has(disk', uid)
              /\ Get(disk', uid) = Get(disk, uid)
              /\ \A i \in 1..Len(out'.msgs) :
                    out'.msgs[i].to = uid =>
                        /\ out'.msgs[i].kind = "completion"
                        /\ tk.pc = "send_completion"
                        /\ Head(tk.rest) = uid ]_vars

\* C3: for a non-completed user with nextReminderTimestamp = T, a tick with
\* nowUtc < T sends no dose reminder and leaves nextReminderTimestamp as it is;
\* a tick with nowUtc >= T sends the reminder, so it does not end without
\* awaiting that send.
C3_StandardReminder ==
    [][ \A uid \in Users :
          /\ ( /\ TickStart
               /\ tk'.pc = "idle"
               /\ cnt'.fail = cnt.fail
               /\ Has(disk, uid)
               /\ ~Get(disk, uid).courseCompleted
               /\ Get(disk, uid).nextReminderTimestamp # None ) =>
                  /\ clock < Get(disk, uid).nextReminderTimestamp[1].t
                  /\ Get(disk', uid).nextReminderTimestamp =
                        Get(disk, uid).nextReminderTimestamp
          /\ (tk'.pc = "send_next" /\ Head(tk'.rest) = uid) =>
                  tk'.now_utc >= Get(tk'.data, uid).nextReminderTimestamp[1].t ]_vars

\* C4: after a postpone at t on a non-completed user, a tick with
\* nowUtc < t + 15 min sends no reminder for the postponed timer and leaves
\* postponedReminderTimestamp as it is; a tick with nowUtc >= t + 15 min sends
\* the reminder, so it does not end without awaiting that send.
C4_PostponedReminder ==
    [][ \A uid \in Users :
          /\ ( /\ TickStart
               /\ tk'.pc = "idle"
               /\ cnt'.fail = cnt.fail
               /\ Has(disk, uid)
               /\ ~Get(disk, uid).courseCompleted
               /\ Get(disk, uid).postponedReminderTimestamp # None ) =>
                  /\ clock < Get(disk, uid).postponedReminderTimestamp[1].t
                  /\ Get(disk', uid).postponedReminderTimestamp =
                        Get(disk, uid).postponedReminderTimestamp
          /\ (tk'.pc = "send_post" /\ Head(tk'.rest) = uid) =>
                  tk'.now_utc >= tk'.post_ts[1].t ]_vars

\* C5: a dose-taken call on a non-completed user that does not complete the
\* course leaves lastDoseTimestamp = now, postponedReminderTimestamp null and
\* nextReminderTimestamp = now + intervalHours(currentDay after the call).
C5_Reschedule ==
    (evLast.op = "taken" /\ evU.currentDay <= 25) =>
        /\ evU.lastDoseTimestamp = Stamp(evLast.now)
        /\ evU.postponedReminderTimestamp = None
        /\ evU.nextReminderTimestamp =
              Stamp(evLast.now + ClaimIntervalMinutes(evU.currentDay))

\* the call that ends day 3 with a postponed timer pending: the interval
\* changes from 2.0 h to 2.5 h
C5_Witness ==
    /\ evLast.op = "taken"
    /\ evLast.before.currentDay = 3
    /\ evLast.before.postponedReminderTimestamp # None
    /\ evU.currentDay = 4

\* C6 as stated: from currentDay=1, takenToday=0, six consecutive dose-taken
\* calls give currentDay=2, takenToday=0 and nextReminderTimestamp = the sixth
\* call's instant + 2.5 h.
C6_SixDoses_Original ==
    (evHist.day = 1 /\ evHist.taken = 0 /\ evHist.takes = 6) =>
        /\ evU.currentDay = 2
        /\ evU.takenToday = 0
        /\ evU.nextReminderTimestamp = Stamp(evLast.now + 150)

\* C6 amended: from currentDay=1, takenToday=0, six consecutive dose-taken
\* calls give currentDay=2, takenToday=0 and nextReminderTimestamp = the sixth
\* call's instant + 2.0 h (day 2 is in the 2.0 h range of the table).
C6_SixDoses ==
    (evHist.day = 1 /\ evHist.taken = 0 /\ evHist.takes = 6) =>
        /\ evU.currentDay = 2
        /\ evU.takenToday = 0
        /\ evU.nextReminderTimestamp = Stamp(evLast.now + 120)

C6_Witness ==
    /\ evHist.day = 1 /\ evHist.taken = 0 /\ evHist.takes = 6
    /\ evLast.op = "taken"
    /\ evLast.before.takenToday = 5

\* C7: a dose-taken call on a non-completed user that makes currentDay exceed
\* 25 sets courseCompleted, leaves both timers null and returns the completion
\* notice; any other call returns none and leaves courseCompleted false.
C7_Completion ==
    evLast.op = "taken" =>
        IF evU.currentDay > 25
        THEN /\ evU.courseCompleted
             /\ evU.nextReminderTimestamp = None
             /\ evU.postponedReminderTimestamp = None
             /\ evLast.completion
        ELSE /\ ~evLast.completion
             /\ ~evU.courseCompleted

C7_Witness ==
    /\ evLast.op = "taken"
    /\ evLast.before.currentDay = 25
    /\ evLast.before.takenToday = 1
    /\ evU.currentDay = 26
    /\ evU.courseCompleted
    /\ evLast.completion

\* C8: one dose-taken call on a non-completed user either adds 1 to takenToday
\* with currentDay unchanged, or adds 1 to currentDay and resets takenToday to 0.
C8_Monotonic ==
    evLast.op = "taken" =>
        \/ /\ evU.takenToday = evLast.before.takenToday + 1
           /\ evU.currentDay = evLast.before.currentDay
        \/ /\ evU.currentDay = evLast.before.currentDay + 1
           /\ evU.takenToday = 0

C8_Witness ==
    /\ evLast.op = "taken"
    /\ evLast.before.currentDay = 12
    /\ evLast.before.takenToday = 4
    /\ evU.currentDay = 13
    /\ evU.takenToday = 0

\* C9: the schedule table is total and is the taper of spec 4.1 for every
\* integer day, so requiredDoses(day) > 0 exactly for day in 1..25.
C9_Table ==
    q.asked =>
        /\ q.doses = ClaimDoses(q.day)
        /\ q.hours * 6 = ClaimIntervalMinutes(q.day)
        /\ (q.doses > 0 <=> q.day \in 1..25)

C9_Witness ==
    /\ q.asked
    /\ q.day = 0
    /\ q.doses = 0
    /\ q.hours = 20

\* C10: missed-dose resolution on a non-completed user with currentDay in 1..25
\* and takenToday < requiredDoses tops takenToday up to requiredDoses, advances
\* currentDay by 1 with takenToday 0 and lastMorningMessageDate cleared, and
\* leaves both timers null.
C10_Missed ==
    ( /\ evLast.op = "missed"
      /\ ~evLast.before.courseCompleted
      /\ evLast.before.currentDay \in 1..25
      /\ evLast.before.takenToday < ClaimDoses(evLast.before.currentDay) ) =>
        /\ evLast.mid.takenToday = ClaimDoses(evLast.before.currentDay)
        /\ evLast.mid.currentDay = evLast.before.currentDay
        /\ evU.currentDay = evLast.before.currentDay + 1
        /\ evU.takenToday = 0
        /\ evU.lastMorningMessageDate = None
        /\ evU.nextReminderTimestamp = None
        /\ evU.postponedReminderTimestamp = None

C10_Witness ==
    /\ evLast.op = "missed"
    /\ ~evLast.before.courseCompleted
    /\ evLast.before.currentDay = 5
    /\ evLast.before.takenToday = 2
    /\ evLast.before.nextReminderTimestamp # None
    /\ evLast.before.postponedReminderTimestamp # None
    /\ evLast.before.lastMorningMessageDate # None
    /\ evU.currentDay = 6

\* C11: applyPostpone at instant now on a non-completed user sets
\* postponedReminderTimestamp = now + 15 minutes and leaves every other field
\* unchanged; on a completed user it changes nothing (and saves nothing).
C11_PostponeFrame ==
    evLast.op = "postpone" =>
        IF evLast.before.courseCompleted
        THEN evU = evLast.before /\ ~evLast.saved
        ELSE /\ evU = [evLast.before EXCEPT
                         !.postponedReminderTimestamp = Stamp(evLast.now + 15)]
             /\ evLast.saved

\* a postpone that replaces an earlier postponed timer while the standard
\* timer is pending
C11_Witness ==
    /\ evLast.op = "postpone"
    /\ ~evLast.before.courseCompleted
    /\ evLast.before.nextReminderTimestamp # None
    /\ evLast.before.postponedReminderTimestamp = Stamp(BaseNow + 15)
    /\ evLast.now = BaseNow + 15
    /\ evU.postponedReminderTimestamp = Stamp(BaseNow + 30)
    /\ evU.nextReminderTimestamp = evLast.before.nextReminderTimestamp

\* C12: postpone then take: a dose taken after a postpone and before the
\* postponed timer is due clears postponedReminderTimestamp, and a tick at the
\* postpone's due time (postpone instant + 15 minutes) then sends that user no
\* dose reminder.
C12_PostponeThenTake ==
    /\ (evLast.op = "taken" /\ evHist.pp # None) =>
            evU.postponedReminderTimestamp = None
    /\ ( /\ evLast.op = "tick"
         /\ evLast.pp # None
         /\ evLast.pp[1].taken
         /\ evLast.now = evLast.pp[1].due ) =>
            /\ evLast.before.postponedReminderTimestamp = None
            /\ \A i \in 1..Len(evLast.sent) : evLast.sent[i] # "reminder"

\* postpone at 07:59, dose before 08:14, tick at 08:14, on a user whose course
\* goes on after the dose
C12_Witness ==
    /\ evLast.op = "tick"
    /\ evLast.pp = Some([due |-> BaseNow + 15, taken |-> TRUE])
    /\ evLast.now = BaseNow + 15
    /\ ~evLast.before.courseCompleted
    /\ evLast.before.lastDoseTimestamp = Stamp(BaseNow)
    /\ evLast.before.nextReminderTimestamp # None

\* the local minute of the day lies in 07:59-08:01
ClaimMorningWindow(minute) == minute >= 7 * 60 + 59 /\ minute <= 8 * 60 + 1

Sends(sent, kind) == Cardinality({i \in 1..Len(sent) : sent[i] = kind})

\* C13: with the user's local time inside 07:59-08:01 and
\* lastMorningMessageDate different from today, a tick sends the morning prompt
\* and sets lastMorningMessageDate to today; a second tick on the same local
\* day with no user event in between sends no morning prompt and leaves
\* lastMorningMessageDate unchanged.
C13_MorningOnce ==
    ( /\ evLast.op = "tick"
      /\ ~evLast.before.courseCompleted
      /\ evLast.before.currentDay <= 25
      /\ ClaimMorningWindow((evLast.now + 60 * evLast.before.timezone) % 1440) ) =>
        LET today == (evLast.now + 60 * evLast.before.timezone) \div 1440
        IN  /\ evLast.before.lastMorningMessageDate # Some(today) =>
                  /\ Sends(evLast.sent, "morning") = 1
                  /\ evU.lastMorningMessageDate = Some(today)
            /\ ( /\ evLast.prev # None
                 /\ evLast.prev[1].now \div 1440 = evLast.now \div 1440
                 /\ Sends(evLast.prev[1].sent, "morning") = 1 ) =>
                  /\ Sends(evLast.sent, "morning") = 0
                  /\ evU.lastMorningMessageDate = evLast.before.lastMorningMessageDate

\* a second tick at 07:59, right after the tick that sent the prompt
C13_Witness ==
    /\ evLast.op = "tick"
    /\ evLast.now = BaseNow
    /\ ~evLast.before.courseCompleted
    /\ evLast.before.currentDay <= 25
    /\ evLast.prev = Some([now |-> BaseNow, sent |-> <<"morning">>])
    /\ evLast.sent = <<>>
    /\ evU.lastMorningMessageDate = Some(0)

\* C14: when the send a tick awaits raises, the tick goes on as if the send had
\* returned: the failing user's changes are persisted, and the users after it
\* get the same state changes and the same sends.
C14_SendFailure ==
    [][ (TickResume /\ out'.undelivered # <<>>) =>
          \E io \in SaveOutcomes :
              LET s == TickSent(TickFrame(tk, io))
              IN  /\ tk' = TickLocals(s)
                  /\ disk' = s.disk
                  /\ cnt'.fail = cnt.fail + s.failed
                  /\ out'.lost = s.lost ]_vars

\* the morning prompt to "u1" raised; the tick has gone on to "u2", saved the
\* 21:00 guard date and awaits the missed-dose prompt
C14_Witness ==
    /\ out.undelivered = <<[to |-> "u1", kind |-> "morning"]>>
    /\ tk.pc = "send_21"
    /\ Head(tk.rest) = "u2"
    /\ Has(disk, "u1") /\ Get(disk, "u1").lastMorningMessageDate = Some(0)
    /\ Has(disk, "u2") /\ Get(disk, "u2").last21Check = Some(0)

\* C15: currentDay > 25 is never a steady state: no operation leaves a record
\* with currentDay > 25 and courseCompleted = false, and an operation that
\* finds such a record sets courseCompleted = true and changes nothing else.
C15_DayBeyondCompletes ==
    /\ evU.currentDay > 25 => evU.courseCompleted
    /\ ( /\ evLast.op \in {"taken", "postpone", "missed", "tick"}
         /\ evLast.before.currentDay > 25
         /\ ~evLast.before.courseCompleted ) =>
            evU = [evLast.before EXCEPT !.courseCompleted = TRUE]

\* C16: across any sequence of ticks and user events on one local calendar day
\* (all instants of a run lie on one day), a user is sent the morning prompt
\* at most once; reads and writes of data.json all succeed.
C16_OneMorningPerDay ==
    cnt.fail = 0 => \A uid \in Users : out.sent[uid].morning <= 1

\* the local minute of the day lies in 20:59-21:02
ClaimWindow21(minute) == minute >= 20 * 60 + 59 /\ minute <= 21 * 60 + 2

\* C17: a tick awaits the missed-dose prompt for a user only with the user's
\* local time in 20:59-21:02, missed = requiredDoses(currentDay) - takenToday
\* > 0 and last21CheckDate already set to today; and across any sequence of
\* ticks and user events (reads and writes of data.json all succeed) a user is
\* sent it at most once per local calendar day.
C17_MissedCheck ==
    /\ tk.pc = "send_21" =>
          LET u == Get(tk.data, Head(tk.rest))
          IN  /\ ~u.courseCompleted
              /\ ClaimWindow21(tk.time_user)
              /\ ClaimDoses(u.currentDay) - u.takenToday > 0
              /\ u.last21Check = Some(tk.today_user)
    /\ cnt.fail = 0 => \A uid \in Users : out.sent[uid].missed <= 1

C19_DoseCount ==
    (~evU.courseCompleted /\ evU.currentDay \in 1..25) =>
        /\ evU.takenToday >= 0
        /\ evU.takenToday < ClaimDoses(evU.currentDay)

\* the dose that ends day 12 (five doses) after a tick: day 13 starts at 0 of 4
C19_Witness ==
    /\ evLast.op = "taken"
    /\ evLast.before.currentDay = 12
    /\ evLast.before.takenToday = 4
    /\ evLast.before.lastMorningMessageDate = Some(0)
    /\ evHist.n >= 3
    /\ evU.currentDay = 13
    /\ evU.takenToday = 0
    /\ ~evU.courseCompleted

\* C20: in every interleaving of a tick with the handlers (reads and writes of
\* data.json all succeed), no step of the tick changes a user's persisted
\* courseCompleted from true to false or decreases the persisted currentDay.
C20_NoRegress ==
    [][ \A uid \in Users :
          ( /\ TickStart \/ TickResume
            /\ cnt'.fail = 0
            /\ Has(disk, uid) /\ Has(disk', uid) ) =>
              /\ Get(disk, uid).courseCompleted => Get(disk', uid).courseCompleted
              /\ Get(disk', uid).currentDay >= Get(disk, uid).currentDay ]_vars

\* C21: over any sequence and interleaving of user events and ticks (reads and
\* writes of data.json all succeed), the completion notice is sent to a user
\* at most once.
C21_OneCompletion ==
    cnt.fail = 0 => \A uid \in Users : out.sent[uid].completion <= 1

\* C22: once a user's record is in the persisted collection, no handler, tick
\* or registration of another user persists a collection that lacks it, also
\* when a load_data call fails or a save_data call fails.
C22_NeverDropped ==
    [][ \A uid \in Users : Has(disk, uid) => Has(disk', uid) ]_vars

\* C23: from a freshly created record and with dose-taken events only,
\* courseCompleted is true after 101 events (3*6 + 9*5 + 4*4 + 4*3 + 5*2) and
\* false after every shorter prefix; so under repeated dose-taken events the
\* user eventually reaches the completed state.
C23_Termination ==
    /\ [](evU.courseCompleted <=> evHist.n >= 101)
    /\ <>evU.courseCompleted

\* the 101st event: the second dose of day 25 returns the completion notice
C23_Witness ==
    /\ evHist.n = 101
    /\ evLast.op = "taken"
    /\ evLast.before.currentDay = 25
    /\ evLast.before.takenToday = 1
    /\ evLast.completion
    /\ evU.courseCompleted

====
